---- MODULE Spec2Model ----
(***************************************************************************)
(* forc-client `deploy` (forc-plugins/forc-client/src/op/deploy.rs).        *)
(*                                                                         *)
(* The model follows one run of `deploy(command)`: the salt map is parsed, *)
(* the wallet mode is selected, and the packages are deployed one after    *)
(* the other, each directly or chunked, each followed by its proxy step.   *)
(* The node, the file system, the wallet and the build pipeline are the    *)
(* environment: every call into them may fail, and the node answers a      *)
(* submission with any transaction status.                                 *)
(*                                                                         *)
(* Conventions.  Option<T> is a sequence: <<>> is None, <<x>> is Some(x).  *)
(* Result<T> is a record [kind |-> "ok" | "err" | "panic", ...].           *)
(* The package at position i of the workspace has project name PkgName(i). *)
(***************************************************************************)
EXTENDS Integers, Sequences, FiniteSets, TLC

VARIABLES
    pc,                     \* position of the run in `deploy`
    command,                \* cmd::Deploy, the flags the run reads
    built_pkgs,             \* Vec<BuiltPackage> the build pipeline returned
    contract_salt_map,      \* Option<ContractSaltMap>
    wallet_mode,            \* WalletSelectionMode
    owner_account_address,  \* the run's shared owner address
    idx,                    \* position of `for pkg in built_pkgs`
    salt,                   \* salt of the package being deployed
    call,                   \* the deploy_pkg call in progress
    deployed_chunks,        \* deploy_chunked: deployed_contracts
    deployed_contract_id,   \* Option<(deployed_contract_id, chunk_ids)>
    deployed_contracts,     \* the result list of the run
    result,                 \* Option<Result<Vec<DeployedContract>>>
    txs,                    \* transactions handed to the node, in order
    artifacts,              \* files under <output_dir>/deployments
    manifests,              \* proxy address persisted in each manifest
    chunks,                 \* deploy_chunked: contract_chunks (id and size)
    bytecode,               \* split check: the bytecode given
    contract_chunks         \* split check: the segments produced

vars == <<pc, command, built_pkgs, contract_salt_map, wallet_mode,
          owner_account_address, idx, salt, call, deployed_chunks,
          deployed_contract_id, deployed_contracts, result, txs, artifacts,
          manifests, chunks, bytecode, contract_chunks>>

----------------------------------------------------------------------------
(* Constants and bounds *)

MAX_CONTRACT_SIZE == 480

\* Largest number of packages in the workspace.
MaxPkgs == 2

\* Longest bytecode.
MaxBytecodeLen == 1000

\* Salt::default()
ZeroSalt == 0

\* 32-byte salts, cut down to two values.
Salts == {ZeroSalt, 1}

\* project_name() of the package at position i of the workspace.
PkgName(i) == <<"pkg", i>>

\* A contract name that no workspace member carries.
OtherName == <<"other", 0>>

Min(a, b) == IF a < b THEN a ELSE b

\* Result<T>: Ok(v), Err(anyhow!(msg, detail)), or a panic (unwrap on Err).
Ok(v) == [kind |-> "ok", value |-> v, msg |-> "", detail |-> <<>>]

Err(m, d) == [kind |-> "err", value |-> <<>>, msg |-> m, detail |-> d]

Panic(m) == [kind |-> "panic", value |-> <<>>, msg |-> m, detail |-> <<>>]

----------------------------------------------------------------------------
(* Bytecode and its split *)

\* The bytes of a compiled package: a fixed pattern whose period (251) does
\* not divide the segment size, so that segments differ from one another.
Bytes(len, seed) == [p \in 1..len |-> (p * 7 + seed) % 251]

\* util::pkg::split_into_chunks: ordered segments of at most chunk_size
\* bytes, every segment but the last full.
RECURSIVE split_into_chunks(_, _)
split_into_chunks(bytes, chunk_size) ==
    IF Len(bytes) = 0 THEN <<>>
    ELSE LET n == Min(chunk_size, Len(bytes))
         IN  <<SubSeq(bytes, 1, n)>>
                 \o split_into_chunks(SubSeq(bytes, n + 1, Len(bytes)), chunk_size)

MutChunksOversized(bytes) == split_into_chunks(bytes, MAX_CONTRACT_SIZE + 1)

\* deploy_chunked: let contract_chunks = split_into_chunks(bytes, MAX_CONTRACT_SIZE)
ContractChunks(bytes) == split_into_chunks(bytes, MAX_CONTRACT_SIZE)

RECURSIVE Concat(_)
Concat(segs) == IF segs = <<>> THEN <<>> ELSE Head(segs) \o Concat(Tail(segs))

CeilDiv(a, b) == (a + b - 1) \div b

----------------------------------------------------------------------------
(* Salts *)

\* The text of a salt: 64 hex digits that spell the salt s, with the 0x
\* prefix or without it, or a text that is no hex salt.
HexText(prefixed, s) == [form |-> IF prefixed THEN "0x" ELSE "bare", digits |-> <<s>>]

BadText == [form |-> "bad", digits |-> <<>>]

\* text.parse::<Salt>(), Some(salt) for Ok(salt): the prefix is optional (the
\* tests parse "0x00..00", line 614, and the Display form, line 637).
SaltFromStr(text) == IF text.form = "bad" THEN <<>> ELSE text.digits

\* Display of Salt, "{salt}": the digits without the prefix.
SaltDisplay(s) == HexText(FALSE, s)

\* format!("0x{}", salt), the way the salt is printed in the artifact
\* (line 498) and in the redeclaration error (line 118).
SaltHex(s) == HexText(TRUE, s)

\* A --salt argument split at its first ':' (split_once): label is Some(name)
\* when the text holds a ':', and salt is the text after it (the whole text
\* when there is none).
SaltArg(label, text) == [label |-> label, salt |-> text]

\* The argument parsed as a whole, salt_input[0].parse::<Salt>(): a text
\* that holds a ':' is no hex salt.
WholeArgFromStr(a) == IF a.label # <<>> THEN <<>> ELSE SaltFromStr(a.salt)

MutInsertDropsOthers(map, name, s) == [n \in {name} |-> s]

\* BTreeMap::insert
MapInsert(map, name, s) ==
    [n \in (DOMAIN map) \cup {name} |-> IF n = name THEN s ELSE map[n]]

EmptyMap == [n \in {} |-> ZeroSalt]

MutDuplicateNewFirst(name, old, new) ==
    Err("2 salts provided for contract", <<name, SaltDisplay(new), SaltDisplay(old)>>)

\* line 104: bail!("2 salts provided for contract '{name}':\n  {old}\n  {salt}")
duplicate_error(name, old, new) ==
    Err("2 salts provided for contract", <<name, SaltDisplay(old), SaltDisplay(new)>>)

\* validate_and_parse_salts, first loop (lines 96-109).
RECURSIVE parse_salt_args(_, _)
parse_salt_args(salt_args, map) ==
    IF salt_args = <<>> THEN Ok(map)
    ELSE LET a == Head(salt_args)
         IN  IF a.label = <<>>
             THEN Err("Invalid salt provided - salt must be in the form <CONTRACT_NAME>:<SALT> when deploying a workspace", <<>>)
             ELSE LET parsed == SaltFromStr(a.salt)
                  IN  IF parsed = <<>> THEN Panic("salt.parse::<Salt>().unwrap()")
                      ELSE IF a.label[1] \in DOMAIN map
                      THEN duplicate_error(a.label[1], map[a.label[1]], parsed[1])
                      ELSE parse_salt_args(Tail(salt_args),
                                           MapInsert(map, a.label[1], parsed[1]))

\* A contract dependency of a manifest: the name it is declared under, the
\* package it names when that differs (Option), and the salt pinned for it.
ContractDep(dep_name, package, s) == [name |-> dep_name, package |-> package, salt |-> s]

\* line 113: contract_dep.dependency.package().unwrap_or(dep_name)
dep_pkg_name(dep) == IF dep.package # <<>> THEN dep.package[1] ELSE dep.name

MutRedeclarationCliFirst(name, manifest_name, pinned, declared_salt) ==
    Err("Redeclaration of salt using the option '--salt'",
        <<name, manifest_name, SaltHex(declared_salt), SaltHex(pinned)>>)

\* lines 115-123: the dependency, the manifest that declares it, the salt
\* the manifest pins ("Existing salt") and the one of --salt ("You declared").
redeclaration_error(name, manifest_name, pinned, declared_salt) ==
    Err("Redeclaration of salt using the option '--salt'",
        <<name, manifest_name, SaltHex(pinned), SaltHex(declared_salt)>>)

\* validate_and_parse_salts, second loop (lines 111-126): the first contract
\* dependency, in manifest order, whose package name the map holds.
RECURSIVE check_contract_deps(_, _, _)
check_contract_deps(map, pkgs, i) ==
    IF i > Len(pkgs) THEN Ok(map)
    ELSE LET deps == pkgs[i].contract_deps
             hit  == {d \in DOMAIN deps : dep_pkg_name(deps[d]) \in DOMAIN map}
         IN  IF hit = {} THEN check_contract_deps(map, pkgs, i + 1)
             ELSE LET d == CHOOSE x \in hit : \A y \in hit : x <= y
                  IN  redeclaration_error(dep_pkg_name(deps[d]), PkgName(i),
                                          deps[d].salt, map[dep_pkg_name(deps[d])])

validate_and_parse_salts(salt_args, pkgs) ==
    LET parsed == parse_salt_args(salt_args, EmptyMap)
    IN  IF parsed.kind # "ok" THEN parsed
        ELSE check_contract_deps(parsed.value, pkgs, 1)

\* deploy, lines 258-292: Option<ContractSaltMap> from command.salt.
salt_map_of(salt_opt, pkgs) ==
    IF salt_opt = <<>> THEN Ok(<<>>)
    ELSE LET salt_input == salt_opt[1]
         IN  IF Len(pkgs) > 1
             THEN LET r == validate_and_parse_salts(salt_input, pkgs)
                  IN  IF r.kind = "ok" THEN Ok(<<r.value>>) ELSE r
             ELSE IF Len(salt_input) > 1
             THEN Err("More than 1 salt was specified when deploying a single contract", <<>>)
             ELSE IF Len(salt_input) = 0 THEN Panic("salt_input[0]")
             ELSE IF WholeArgFromStr(salt_input[1]) = <<>>
             THEN Panic("salt_input[0].parse::<Salt>().unwrap()")
             ELSE Ok(<<MapInsert(EmptyMap, PkgName(1), WholeArgFromStr(salt_input[1])[1])>>)

MutUnnamedIsRandom(salt_map, default_salt, name, rnd) ==
    IF salt_map # <<>> /\ ~default_salt
    THEN IF name \in DOMAIN salt_map[1]
         THEN Ok([value |-> salt_map[1][name], from |-> "map entry"])
         ELSE Ok([value |-> rnd, from |-> "rand::random()"])
    ELSE IF salt_map = <<>> /\ default_salt
    THEN Ok([value |-> ZeroSalt, from |-> "Default::default()"])
    ELSE IF salt_map = <<>> /\ ~default_salt
    THEN Ok([value |-> rnd, from |-> "rand::random()"])
    ELSE Err("Both --salt and --default-salt were specified: must choose one", <<>>)

MutBothFlagsPrefersMap(salt_map, default_salt, name, rnd) ==
    IF salt_map # <<>>
    THEN IF name \in DOMAIN salt_map[1]
         THEN Ok([value |-> salt_map[1][name], from |-> "map entry"])
         ELSE Ok([value |-> ZeroSalt, from |-> "Default::default()"])
    ELSE IF default_salt
    THEN Ok([value |-> ZeroSalt, from |-> "Default::default()"])
    ELSE Ok([value |-> rnd, from |-> "rand::random()"])

\* deploy, lines 310-323: the salt of one package and the expression that
\* produced it; rnd is the value rand::random() returns.
select_salt(salt_map, default_salt, name, rnd) ==
    IF salt_map # <<>> /\ ~default_salt
    THEN IF name \in DOMAIN salt_map[1]
         THEN Ok([value |-> salt_map[1][name], from |-> "map entry"])
         ELSE Ok([value |-> ZeroSalt, from |-> "Default::default()"])
    ELSE IF salt_map = <<>> /\ default_salt
    THEN Ok([value |-> ZeroSalt, from |-> "Default::default()"])
    ELSE IF salt_map = <<>> /\ ~default_salt
    THEN Ok([value |-> rnd, from |-> "rand::random()"])
    ELSE Err("Both --salt and --default-salt were specified: must choose one", <<>>)

----------------------------------------------------------------------------
(* Contract ids, addresses and signers *)

\* Contract::id(salt, root, state_root): the id is a function of the
\* bytecode and the salt, and different bytecode gives a different id.  The
\* bytecode is named by what was compiled: the package itself, its k-th
\* chunk, its loader or its proxy.
ContractId(role, i, k, s) == [code |-> <<role, i, k>>, salt |-> s]

\* format!("0x{}", id)
Hex(id) == <<"0x", id>>

\* ContractId::from_str
ContractIdFromStr(text) ==
    IF text[1] = "0x" THEN Ok(text[2]) ELSE Err("Invalid encoded byte", <<>>)

\* The proxy a manifest already names, deployed by an earlier run.
ExistingProxy(i) == ContractId("proxy", i, 1, ZeroSalt)

\* A proxy address in a manifest that is no contract id.
BadAddress == <<"zz", ContractId("proxy", 0, 0, ZeroSalt)>>

\* Bech32Address::default()
DefaultAddress == <<"address", "default">>

\* bech32_from_secret
AddressOf(secret_key) == <<"address", secret_key>>

\* util::tx::select_manual_secret_key
select_manual_secret_key(default_signer, signing_key) ==
    IF signing_key # <<>> THEN signing_key
    ELSE IF default_signer THEN <<"default signer">>
    ELSE <<>>

\* util::tx::select_secret_key: the results the call may give.  With a forc
\* wallet the account is chosen at a prompt: a key, no key, or an error.
select_secret_key(mode, default_sign, signing_key) ==
    IF mode = "Manual"
    THEN {Ok(select_manual_secret_key(default_sign, signing_key))}
    ELSE {Ok(<<"wallet account">>), Ok(<<>>), Err("wallet", <<>>)}

\* deploy, line 295
WalletModeOf(cmd) ==
    IF cmd.default_signer \/ cmd.signing_key # <<>> THEN "Manual" ELSE "ForcWallet"

----------------------------------------------------------------------------
(* The node and the file system *)

\* An id that is not the one computed for the transaction.
ForeignId == ContractId("foreign", 0, 0, ZeroSalt)

\* The id under which the node at command.node holds the contract of a
\* transaction it committed: a node that validates the transaction holds it
\* under the id the transaction carries (lines 457-464); one that does not
\* may hold it under another.
NetworkIds(node, id) == IF node = "validating" THEN {id} ELSE {id, ForeignId}

\* What client.submit_and_await_commit resolves to: a TransactionStatus, or
\* an io::Error.
NodeResponses == {"Submitted", "Success", "Failure", "SqueezedOut", "io::Error"}

MutPendingIsSuccess(res, id) ==
    IF res = "io::Error" THEN Err("io::Error", <<>>)
    ELSE IF res \in {"Submitted", "Success"} THEN Ok(id)
    ELSE Err("contract failed to deploy due to an error", <<id, res>>)

MutPendingIsRejection(res, id) ==
    IF res = "io::Error" THEN Err("io::Error", <<>>)
    ELSE IF res = "Success" THEN Ok(id)
    ELSE Err("contract failed to deploy due to an error", <<id, res>>)

\* deploy_pkg, lines 482-526: the closure mapped over the node's response.
classify(res, id) ==
    IF res = "io::Error" THEN Err("io::Error", <<>>)
    ELSE IF res = "Submitted" THEN Err("contract deployment timed out", <<id>>)
    ELSE IF res = "Success" THEN Ok(id)
    ELSE Err("contract failed to deploy due to an error", <<id, res>>)

\* deploy_pkg, lines 528-538: the timeout elapsed first.
Elapsed(id) ==
    Err("Timed out waiting for contract to deploy. The transaction may have been dropped.",
        <<id>>)

\* DeploymentArtifact::to_file: the directory or the file cannot be created
\* ("no file"), the file is created and the write fails ("partial"), or the
\* artifact is written ("written").
ToFileOutcomes == {"written", "partial", "no file"}

Artifact(name, id, state) == [pkg_name |-> name, contract_id |-> id, state |-> state]

MutToFileClearsDirectory(files, name, id, outcome) ==
    IF outcome = "no file" THEN files ELSE {Artifact(name, id, outcome)}

to_file(files, name, id, outcome) ==
    IF outcome = "no file" THEN files
    ELSE {f \in files : ~(f.pkg_name = name /\ f.contract_id = id)}
             \cup {Artifact(name, id, outcome)}

\* The manifest deploy_pkg is given: the package's own, or the manifest of
\* the loader project built for it.
ManifestName(role, i) ==
    IF role = "loader" THEN <<"loader", i>> ELSE PkgName(i)

\* A transaction handed to the node: what it deploys or calls, the status
\* the node gave it ("InFlight" until then, "Elapsed" when the timeout came
\* first), what the call that submitted it returned (None until then) and
\* the id the node holds the contract under once committed.
Tx(role, i, id, target) ==
    [role |-> role, pkg |-> i, id |-> id, target |-> target, status |-> "InFlight",
     returned |-> <<>>, network_id |-> <<>>]

\* The transaction signed (lines 473-475, update_proxy_contract_target): the
\* key that signs it and, for a proxy contract, the owner it was built with
\* (line 167).
Signed(tx, key, owner) ==
    [f \in (DOMAIN tx) \cup {"signer", "owner"} |->
        IF f = "signer" THEN key ELSE IF f = "owner" THEN owner ELSE tx[f]]

Last(seq) == seq[Len(seq)]

----------------------------------------------------------------------------
(* Decisions of the package loop *)

MutChunkedFromLimit(bytecode_size) == bytecode_size >= MAX_CONTRACT_SIZE

\* deploy, line 331
deploy_chunked_needed(bytecode_size) == bytecode_size > MAX_CONTRACT_SIZE

\* ContractChunk of each segment: its id and its size.
ChunksOf(len) ==
    LET segs == ContractChunks(Bytes(len, 0))
    IN  [k \in DOMAIN segs |-> [id |-> k - 1, size |-> Len(segs[k])]]

MutProxyIgnoresAddress(proxy) ==
    IF proxy = <<>> THEN "none"
    ELSE IF ~proxy[1].enabled THEN "none"
    ELSE "new"

\* deploy, lines 358-417: what the proxy table of the manifest asks for.
proxy_action(proxy) ==
    IF proxy = <<>> THEN "none"
    ELSE IF ~proxy[1].enabled THEN "none"
    ELSE IF proxy[1].address # <<>> THEN "update"
    ELSE "new"

MutPushChunkFront(list, id) == <<id>> \o list

\* ContractChunk::deploy (util::pkg): chunk k is deployed as a contract of its
\* own, by the same submission as any other contract, with the package's salt.
deploy_chunk(k) == [role |-> "chunk", k |-> k, owner |-> <<"address", "default">>]

\* deploy_chunked, line 195
push_chunk(list, id) == Append(list, id)

\* deploy_chunked, lines 191-196: the chunk after chunk k, 0 when none is left.
next_chunk(k, n) == IF k < n THEN k + 1 ELSE 0

MutSwallowError(e) == [pc |-> "loop", result |-> <<>>]

\* The `?` after every fallible call: the error ends the run.
propagate(e) == [pc |-> "done", result |-> <<e>>]

DeployedContract(id, proxy) == [id |-> id, proxy |-> proxy]

MutPushResultFront(list, deployed_contract) == <<deployed_contract>> \o list

\* deploy, line 422
push_result(list, deployed_contract) == Append(list, deployed_contract)

NoSalt == [value |-> ZeroSalt, from |-> "unset"]

NoCall == [role |-> "none", k |-> 0, owner |-> DefaultAddress]

Call(role, k, owner) == [role |-> role, k |-> k, owner |-> owner]

----------------------------------------------------------------------------
(* The run *)

\* The variables a step of the run may write, as one record.
cur ==
    [pc |-> pc, contract_salt_map |-> contract_salt_map, wallet_mode |-> wallet_mode,
     owner_account_address |-> owner_account_address, idx |-> idx, salt |-> salt,
     call |-> call, deployed_chunks |-> deployed_chunks,
     deployed_contract_id |-> deployed_contract_id,
     deployed_contracts |-> deployed_contracts, result |-> result, txs |-> txs,
     artifacts |-> artifacts, manifests |-> manifests, chunks |-> chunks]

Becomes(n) ==
    /\ pc' = n.pc
    /\ contract_salt_map' = n.contract_salt_map
    /\ wallet_mode' = n.wallet_mode
    /\ owner_account_address' = n.owner_account_address
    /\ idx' = n.idx
    /\ salt' = n.salt
    /\ call' = n.call
    /\ deployed_chunks' = n.deployed_chunks
    /\ deployed_contract_id' = n.deployed_contract_id
    /\ deployed_contracts' = n.deployed_contracts
    /\ result' = n.result
    /\ txs' = n.txs
    /\ artifacts' = n.artifacts
    /\ manifests' = n.manifests
    /\ chunks' = n.chunks
    /\ UNCHANGED <<command, built_pkgs, bytecode, contract_chunks>>

\* `?`, bail! and unwrap: the run ends with the error.
Failed(s, e) == [s EXCEPT !.pc = propagate(e).pc, !.result = propagate(e).result]

\* return Ok(deployed_contracts)
Returned(s, list) == [s EXCEPT !.pc = "done", !.result = <<Ok(list)>>]

\* deploy, lines 239-302: the packages are built, the salt map is parsed and
\* the wallet mode is chosen.
begin(s, build_ok, prompt_ok) ==
    LET maps == salt_map_of(command.salt, built_pkgs)
        mode == WalletModeOf(command)
    IN  IF ~build_ok THEN Failed(s, Err("built_pkgs", <<>>))
        ELSE IF built_pkgs = <<>> THEN Returned(s, s.deployed_contracts)
        ELSE IF maps.kind # "ok" THEN Failed(s, maps)
        ELSE IF mode = "ForcWallet" /\ ~prompt_ok
        THEN Failed(s, Err("prompt_forc_wallet_password", <<>>))
        ELSE [s EXCEPT !.pc = "loop", !.contract_salt_map = maps.value,
                       !.wallet_mode = mode]

Begin ==
    /\ pc = "start"
    /\ \E build_ok \in BOOLEAN, prompt_ok \in BOOLEAN :
           Becomes(begin(cur, build_ok, prompt_ok))

\* deploy, lines 303-355, up to the first deployment of the package: the loop
\* ends, skips a package that is no contract, or picks the salt and starts
\* the direct or the chunked deployment.
loop_step(s, rnd, url_ok, connect_ok) ==
    IF s.idx > Len(built_pkgs) THEN Returned(s, s.deployed_contracts)
    ELSE LET pkg == built_pkgs[s.idx]
             sel == select_salt(s.contract_salt_map, command.default_salt,
                                PkgName(s.idx), rnd)
         IN  IF ~pkg.is_contract THEN [s EXCEPT !.idx = s.idx + 1]
             ELSE IF sel.kind # "ok" THEN Failed(s, sel)
             ELSE IF ~url_ok THEN Failed(s, Err("get_node_url", <<>>))
             ELSE IF deploy_chunked_needed(pkg.len)
             THEN IF ~connect_ok THEN Failed(s, Err("Provider::connect", <<>>))
                  ELSE LET cs == ChunksOf(pkg.len)
                       IN  [s EXCEPT !.salt = sel.value, !.chunks = cs,
                                     !.deployed_chunks = <<>>,
                                     !.deployed_contract_id = <<>>,
                                     !.call = deploy_chunk(next_chunk(0, Len(cs))),
                                     !.pc = "deploy_pkg"]
             ELSE [s EXCEPT !.salt = sel.value, !.chunks = <<>>,
                            !.deployed_chunks = <<>>,
                            !.deployed_contract_id = <<>>,
                            !.call = Call("direct", 0, DefaultAddress),
                            !.pc = "deploy_pkg"]

LoopStep ==
    /\ pc = "loop"
    /\ \E rnd \in Salts, url_ok \in BOOLEAN, connect_ok \in BOOLEAN :
           Becomes(loop_step(cur, rnd, url_ok, connect_ok))

\* deploy_pkg, lines 436-482: the transaction is built, signed and handed to
\* the node.  A chunk is deployed the same way (ContractChunk::deploy).
submit(s, prepare_ok, key) ==
    LET id == ContractId(s.call.role, s.idx, s.call.k, s.salt.value)
    IN  IF ~prepare_ok THEN Failed(s, Err("io::Error", <<>>))
        ELSE IF key.kind # "ok" THEN Failed(s, key)
        ELSE IF key.value = <<>>
        THEN Failed(s, Err("failed to select a signer for the transaction", <<>>))
        ELSE [s EXCEPT !.txs = Append(s.txs, Signed(Tx(s.call.role, s.idx, id, <<>>),
                                                    key.value[1], s.call.owner)),
                       !.pc = "await"]

Submit ==
    /\ pc = "deploy_pkg"
    /\ \E prepare_ok \in BOOLEAN,
          key \in select_secret_key(wallet_mode,
                                    command.default_signer \/ command.unsigned,
                                    command.signing_key) :
           Becomes(submit(cur, prepare_ok, key))

\* Where deploy_pkg returns to.
after_deploy(role) ==
    IF role = "chunk" THEN "chunk_deployed"
    ELSE IF role = "proxy" THEN "proxy_deployed"
    ELSE "impl_deployed"

\* deploy_pkg, lines 482-540: the node answers before the timeout.
commit(s, res, written, network_id) ==
    LET tx  == Last(s.txs)
        out == classify(res, tx.id)
        ret == IF out.kind = "ok" /\ written # "written"
               THEN Err("to_file", <<written>>)
               ELSE out
        s1  == [s EXCEPT !.txs[Len(s.txs)].status = res,
                         !.txs[Len(s.txs)].returned = <<ret>>,
                         !.txs[Len(s.txs)].network_id =
                             IF res = "Success" THEN <<network_id>> ELSE <<>>]
    IN  IF out.kind # "ok" THEN Failed(s1, ret)
        ELSE LET s2 == [s1 EXCEPT !.artifacts =
                            to_file(s.artifacts, ManifestName(tx.role, tx.pkg),
                                    tx.id, written)]
             IN  IF ret.kind # "ok" THEN Failed(s2, ret)
                 ELSE [s2 EXCEPT !.pc = after_deploy(tx.role)]

Commit ==
    /\ pc = "await"
    /\ \E res \in NodeResponses, written \in ToFileOutcomes,
          network_id \in NetworkIds(command.node, Last(txs).id) :
           Becomes(commit(cur, res, written, network_id))

MutTimeoutKeepsWaiting(s) == s

\* deploy_pkg, lines 528-538: the timeout elapses before the node answers.
timeout(s) ==
    LET ret == Elapsed(Last(s.txs).id)
    IN  Failed([s EXCEPT !.txs[Len(s.txs)].status = "Elapsed",
                         !.txs[Len(s.txs)].returned = <<ret>>], ret)

Timeout ==
    /\ pc = "await"
    /\ Becomes(timeout(cur))

\* deploy_chunked, lines 191-227: a chunk is deployed; the next chunk
\* follows, and after the last one the loader is built and deployed.
chunk_deployed(s, build_ok) ==
    LET ids == push_chunk(s.deployed_chunks, Last(s.txs).id)
        k   == next_chunk(s.call.k, Len(s.chunks))
        s1  == [s EXCEPT !.deployed_chunks = ids]
    IN  IF k # 0 THEN [s1 EXCEPT !.call = deploy_chunk(k), !.pc = "deploy_pkg"]
        ELSE IF ~built_pkgs[s.idx].abi_fuel
        THEN Failed(s1, Err("contract chunking is only supported with fuelVM", <<>>))
        ELSE IF ~build_ok THEN Failed(s1, Err("build_loader_contract", <<>>))
        ELSE [s1 EXCEPT !.call = Call("loader", 0, DefaultAddress),
                        !.pc = "deploy_pkg"]

ChunkDeployed ==
    /\ pc = "chunk_deployed"
    /\ \E build_ok \in BOOLEAN : Becomes(chunk_deployed(cur, build_ok))

\* deploy, lines 418-424: the package's DeployedContract is pushed, the
\* iteration's locals are dropped and the loop goes on.
pushed(s, id, proxy) ==
    [s EXCEPT !.deployed_contracts = push_result(s.deployed_contracts,
                                                 DeployedContract(id, proxy)),
              !.idx = s.idx + 1, !.call = NoCall, !.salt = NoSalt,
              !.deployed_chunks = <<>>, !.deployed_contract_id = <<>>,
              !.chunks = <<>>, !.pc = "loop"]

\* deploy, lines 331-360 and 412-417: the implementation is deployed (the
\* loader when chunked); the proxy table decides what follows.
impl_deployed(s) ==
    LET id  == Last(s.txs).id
        ids == IF Last(s.txs).role = "loader" THEN s.deployed_chunks ELSE <<>>
        s1  == [s EXCEPT !.deployed_contract_id = <<[id |-> id, chunk_ids |-> ids]>>]
        act == proxy_action(built_pkgs[s.idx].proxy)
    IN  IF act = "none" THEN pushed(s1, id, <<>>)
        ELSE IF act = "update" THEN [s1 EXCEPT !.pc = "update_proxy"]
        ELSE [s1 EXCEPT !.pc = "new_proxy"]

ImplDeployed ==
    /\ pc = "impl_deployed"
    /\ Becomes(impl_deployed(cur))

MutSigningKeyOptional(signing_key) ==
    IF signing_key = <<>> THEN Ok("no key") ELSE Ok(signing_key[1])

\* deploy, lines 377-380: signing_key.ok_or_else(..)?
require_signing_key(signing_key) ==
    IF signing_key = <<>>
    THEN Err("proxy contract deployments are not supported with manual prompt based signing", <<>>)
    ELSE Ok(signing_key[1])

\* deploy, lines 360-391: the proxy the manifest names is pointed at the
\* implementation.
update_proxy(s, connect_ok, key, status) ==
    LET impl  == s.deployed_contract_id[1].id
        proxy == ContractIdFromStr(built_pkgs[s.idx].proxy[1].address[1])
    IN  IF ~connect_ok THEN Failed(s, Err("Provider::connect", <<>>))
        ELSE IF key.kind # "ok" THEN Failed(s, key)
        ELSE IF require_signing_key(key.value).kind # "ok"
        THEN Failed(s, require_signing_key(key.value))
        ELSE IF proxy.kind # "ok" THEN Failed(s, proxy)
        ELSE LET ret == IF status = "Success" THEN Ok(proxy.value)
                        ELSE Err("update_proxy_contract_target", <<status>>)
                 tx  == [Signed(Tx("set_target", s.idx, proxy.value, <<impl>>),
                                require_signing_key(key.value).value, DefaultAddress)
                            EXCEPT !.status = status, !.returned = <<ret>>]
                 s1  == [s EXCEPT !.txs = Append(s.txs, tx)]
             IN  IF ret.kind # "ok" THEN Failed(s1, ret)
                 ELSE pushed(s1, impl, <<proxy.value>>)

UpdateProxy ==
    /\ pc = "update_proxy"
    /\ \E connect_ok \in BOOLEAN, status \in {"Success", "Failure"},
          key \in select_secret_key(wallet_mode, command.default_signer,
                                    command.signing_key) :
           Becomes(update_proxy(cur, connect_ok, key, status))

MutEveryModeStoresOwner(mode, held, account) == account

\* deploy_new_proxy, lines 145-161: what the run's owner address holds after
\* the owner was resolved: the account in the ForcWallet arm (line 150); the
\* Manual arm assigns nothing.
cache_owner(mode, held, account) == IF mode = "ForcWallet" THEN account ELSE held

\* deploy_new_proxy, lines 140-168: the owner is the address the run holds,
\* or else the wallet's first account (kept for the run), or else the
\* address of the manual key; the proxy contract is built.
new_proxy(s, wallet_ok, build_ok) ==
    LET key == select_manual_secret_key(command.default_signer, command.signing_key)
    IN  IF s.owner_account_address # DefaultAddress
        THEN IF ~build_ok THEN Failed(s, Err("build_proxy_contract", <<>>))
             ELSE [s EXCEPT !.call = Call("proxy", 0, s.owner_account_address),
                            !.pc = "deploy_pkg"]
        ELSE IF s.wallet_mode = "ForcWallet"
        THEN IF ~wallet_ok THEN Failed(s, Err("first_user_account", <<>>))
             ELSE LET account == AddressOf("wallet account")
                      s1      == [s EXCEPT !.owner_account_address =
                                      cache_owner(s.wallet_mode, s.owner_account_address,
                                                  account)]
                  IN  IF ~build_ok THEN Failed(s1, Err("build_proxy_contract", <<>>))
                      ELSE [s1 EXCEPT !.call = Call("proxy", 0, account),
                                      !.pc = "deploy_pkg"]
        ELSE IF key = <<>>
        THEN Failed(s, Err("couldn't resolve the secret key for manual signing", <<>>))
        ELSE LET account == AddressOf(key[1])
                 s1      == [s EXCEPT !.owner_account_address =
                                 cache_owner(s.wallet_mode, s.owner_account_address,
                                             account)]
             IN  IF ~build_ok THEN Failed(s1, Err("build_proxy_contract", <<>>))
                 ELSE [s1 EXCEPT !.call = Call("proxy", 0, account),
                                 !.pc = "deploy_pkg"]

NewProxy ==
    /\ pc = "new_proxy"
    /\ \E wallet_ok \in BOOLEAN, build_ok \in BOOLEAN :
           Becomes(new_proxy(cur, wallet_ok, build_ok))

\* update_proxy_address_in_manifest(address, manifest): what the package's
\* manifest holds afterwards.
update_proxy_address_in_manifest(files, i, address) ==
    [files EXCEPT ![i] = <<address>>]

MutManifestGetsImpl(proxy_id, impl_id) == Hex(impl_id)

\* deploy, lines 405-411: the address written is that of the new proxy.
manifest_address(proxy_id, impl_id) == Hex(proxy_id)

\* deploy, lines 403-411: the new proxy is deployed; its address goes to the
\* manifest.
proxy_deployed(s, write_ok) ==
    LET proxy == Last(s.txs).id
        impl  == s.deployed_contract_id[1].id
    IN  IF ~write_ok THEN Failed(s, Err("update_proxy_address_in_manifest", <<>>))
        ELSE pushed([s EXCEPT !.manifests =
                         update_proxy_address_in_manifest(
                             s.manifests, s.idx, manifest_address(proxy, impl))],
                    impl, <<proxy>>)

ProxyDeployed ==
    /\ pc = "proxy_deployed"
    /\ \E write_ok \in BOOLEAN : Becomes(proxy_deployed(cur, write_ok))

Next ==
    \/ Begin
    \/ LoopStep
    \/ Submit
    \/ Commit
    \/ Timeout
    \/ ChunkDeployed
    \/ ImplDeployed
    \/ UpdateProxy
    \/ NewProxy
    \/ ProxyDeployed

----------------------------------------------------------------------------
(* Inputs *)

\* The lengths of bytecode the packages have: the largest deployed as one
\* contract and the smallest that is chunked (two chunks).
Lens == {MAX_CONTRACT_SIZE, MAX_CONTRACT_SIZE + 1}

Package(is_contract, len, abi_fuel, proxy) ==
    [is_contract |-> is_contract, len |-> len, abi_fuel |-> abi_fuel,
     proxy |-> proxy, contract_deps |-> <<>>]

ProxyTable(enabled, address) == <<[enabled |-> enabled, address |-> address]>>

\* The proxy tables of the package at position i: none, disabled, enabled
\* with no address, enabled with the address of an earlier proxy.
ProxyTablesAt(i) ==
    {<<>>, ProxyTable(FALSE, <<>>), ProxyTable(TRUE, <<>>),
     ProxyTable(TRUE, <<Hex(ExistingProxy(i))>>)}

\* The packages the build may return at position i.  A package that is no
\* contract is never read further and the ABI is read only when the package
\* is chunked, so one package stands for each of these; one package has the
\* longest bytecode (three chunks or more, then a new proxy) and one names a proxy address
\* that is no contract id.
PackagesAt(i) ==
    {Package(FALSE, MAX_CONTRACT_SIZE, TRUE, <<>>)}
        \cup {Package(TRUE, len, TRUE, px) : len \in Lens, px \in ProxyTablesAt(i)}
        \cup {Package(TRUE, MAX_CONTRACT_SIZE + 1, FALSE, <<>>),
              Package(TRUE, MaxBytecodeLen, TRUE, ProxyTable(TRUE, <<>>)),
              Package(TRUE, MAX_CONTRACT_SIZE, TRUE, ProxyTable(TRUE, <<BadAddress>>))}

Workspaces(n) ==
    {ws \in [1..n -> UNION {PackagesAt(i) : i \in 1..n}] :
        \A i \in 1..n : ws[i] \in PackagesAt(i)}

Commands ==
    {[salt |-> <<>>, default_salt |-> ds, default_signer |-> sg, unsigned |-> FALSE, node |-> "validating",
      signing_key |-> <<>>] : ds \in BOOLEAN, sg \in BOOLEAN}

ManifestsOf(pkgs) ==
    [i \in DOMAIN pkgs |->
        IF pkgs[i].proxy = <<>> THEN <<>> ELSE pkgs[i].proxy[1].address]

InitRun(cmds, workspaces) ==
    /\ pc = "start"
    /\ command \in cmds
    /\ built_pkgs \in workspaces
    /\ contract_salt_map = <<>>
    /\ wallet_mode = "unset"
    /\ owner_account_address = DefaultAddress
    /\ idx = 1
    /\ salt = NoSalt
    /\ call = NoCall
    /\ deployed_chunks = <<>>
    /\ deployed_contract_id = <<>>
    /\ deployed_contracts = <<>>
    /\ result = <<>>
    /\ txs = <<>>
    /\ artifacts = {}
    /\ manifests = ManifestsOf(built_pkgs)
    /\ chunks = <<>>
    /\ bytecode = <<>>
    /\ contract_chunks = <<>>

Init == InitRun(Commands, UNION {Workspaces(n) : n \in 0..MaxPkgs})

Spec == Init /\ [][Next]_vars

----------------------------------------------------------------------------
(* The run with --salt *)

\* Longest list of --salt arguments.
MaxSaltArgs == 2

\* The --salt arguments: a salt for the first package, for the second, for a
\* name outside the workspace, and a bare salt.
SaltArgs ==
    {SaltArg(<<PkgName(1)>>, HexText(TRUE, 1)), SaltArg(<<PkgName(2)>>, HexText(TRUE, ZeroSalt)),
     SaltArg(<<OtherName>>, HexText(FALSE, 1)), SaltArg(<<>>, HexText(TRUE, 1))}

SaltInputs ==
    {<<>>} \cup {<<args>> : args \in UNION {[1..n -> SaltArgs] : n \in 1..MaxSaltArgs}}

SaltCommands ==
    {[salt |-> si, default_salt |-> ds, default_signer |-> TRUE, unsigned |-> FALSE, node |-> "validating",
      signing_key |-> <<>>] : si \in SaltInputs, ds \in BOOLEAN}

\* One package of each way through the loop.
SaltPackagesAt(i) ==
    {Package(FALSE, MAX_CONTRACT_SIZE, TRUE, <<>>),
     Package(TRUE, MAX_CONTRACT_SIZE, TRUE, <<>>),
     Package(TRUE, MAX_CONTRACT_SIZE, TRUE, ProxyTable(TRUE, <<Hex(ExistingProxy(i))>>)),
     Package(TRUE, MAX_CONTRACT_SIZE + 1, TRUE, ProxyTable(TRUE, <<>>))}

SaltWorkspaces(n) ==
    {ws \in [1..n -> UNION {SaltPackagesAt(i) : i \in 1..n}] :
        \A i \in 1..n : ws[i] \in SaltPackagesAt(i)}

InitSalt == InitRun(SaltCommands, UNION {SaltWorkspaces(n) : n \in 0..MaxPkgs})

SpecSalt == InitSalt /\ [][Next]_vars

----------------------------------------------------------------------------
(* The run against a node that may not validate *)

NodeCommands ==
    {[salt |-> <<>>, default_salt |-> TRUE, default_signer |-> TRUE,
      unsigned |-> FALSE, node |-> nd, signing_key |-> <<>>] :
        nd \in {"validating", "not validating"}}

InitNode == InitRun(NodeCommands, UNION {SaltWorkspaces(n) : n \in 0..MaxPkgs})

SpecNode == InitNode /\ [][Next]_vars

----------------------------------------------------------------------------
(* The run under every choice of signer *)

\* A key given with --signing-key.
GivenKey == "signing key"

SignerCommands ==
    {[salt |-> <<>>, default_salt |-> TRUE, default_signer |-> sg, unsigned |-> un,
      node |-> "validating", signing_key |-> key] :
        sg \in BOOLEAN, un \in BOOLEAN, key \in {<<>>, <<GivenKey>>}}

\* One package of each way through the loop, and a chunked one whose
\* manifest names a proxy.
SignerPackagesAt(i) ==
    SaltPackagesAt(i)
        \cup {Package(TRUE, MAX_CONTRACT_SIZE + 1, TRUE,
                      ProxyTable(TRUE, <<Hex(ExistingProxy(i))>>))}

SignerWorkspaces(n) ==
    {ws \in [1..n -> UNION {SignerPackagesAt(i) : i \in 1..n}] :
        \A i \in 1..n : ws[i] \in SignerPackagesAt(i)}

InitSigner == InitRun(SignerCommands, UNION {SignerWorkspaces(n) : n \in 0..MaxPkgs})

SpecSigner == InitSigner /\ [][Next]_vars

----------------------------------------------------------------------------
(* The split alone *)

\* deploy_chunked, line 189, on the bytecode of a package that is chunked.
SplitStep ==
    /\ pc = "split"
    /\ pc' = "split_done"
    /\ contract_chunks' = ContractChunks(bytecode)
    /\ UNCHANGED <<command, built_pkgs, contract_salt_map, wallet_mode,
                   owner_account_address, idx, salt, call, deployed_chunks,
                   deployed_contract_id, deployed_contracts, result, txs,
                   artifacts, manifests, chunks, bytecode>>

NextSplit == SplitStep

InitSplit ==
    /\ pc = "split"
    /\ command \in {c \in Commands : c.default_salt /\ c.default_signer}
    /\ built_pkgs = <<>>
    /\ contract_salt_map = <<>>
    /\ wallet_mode = "unset"
    /\ owner_account_address = DefaultAddress
    /\ idx = 1
    /\ salt = NoSalt
    /\ call = NoCall
    /\ deployed_chunks = <<>>
    /\ deployed_contract_id = <<>>
    /\ deployed_contracts = <<>>
    /\ result = <<>>
    /\ txs = <<>>
    /\ artifacts = {}
    /\ manifests = <<>>
    /\ chunks = <<>>
    /\ \E len \in (MAX_CONTRACT_SIZE + 1)..MaxBytecodeLen, seed \in {0, 1} :
           bytecode = Bytes(len, seed)
    /\ contract_chunks = <<>>

SpecSplit == InitSplit /\ [][NextSplit]_vars

----------------------------------------------------------------------------
(* validate_and_parse_salts alone *)

\* Longest list of arguments given to validate_and_parse_salts.
MaxParseArgs == 3

\* A dependency name that is an alias of the second member's package.
AliasName == <<"alias", 0>>

ParseTexts ==
    {HexText(TRUE, ZeroSalt), HexText(TRUE, 1), HexText(FALSE, 1), BadText}

\* The arguments: every name with every text, and a text without a ':'.
ParseArgs ==
    {SaltArg(<<n>>, t) : n \in {PkgName(1), PkgName(2), OtherName}, t \in ParseTexts}
        \cup {SaltArg(<<>>, HexText(TRUE, 1))}

ParseInputs == UNION {[1..n -> ParseArgs] : n \in 0..MaxParseArgs}

ParseCommands ==
    {[salt |-> <<args>>, default_salt |-> FALSE, default_signer |-> TRUE,
      unsigned |-> FALSE, node |-> "validating", signing_key |-> <<>>] : args \in ParseInputs}

\* The contract dependencies a manifest declares: none, one outside the
\* workspace, one that names the second member under an alias, or both with
\* another salt pinned.
ContractDepLists ==
    {<<>>,
     <<ContractDep(OtherName, <<>>, ZeroSalt)>>,
     <<ContractDep(AliasName, <<PkgName(2)>>, 1)>>,
     <<ContractDep(AliasName, <<PkgName(2)>>, ZeroSalt), ContractDep(OtherName, <<>>, 1)>>}

\* The workspaces: two members (validate_and_parse_salts is called for more
\* than one package, line 261).
ParseWorkspaces ==
    {<<[Package(TRUE, MAX_CONTRACT_SIZE, TRUE, <<>>) EXCEPT !.contract_deps = d1],
       [Package(TRUE, MAX_CONTRACT_SIZE, TRUE, <<>>) EXCEPT !.contract_deps = d2]>> :
        d1 \in ContractDepLists, d2 \in ContractDepLists}

\* deploy, lines 262-265: the call of validate_and_parse_salts.
ParseStep ==
    /\ pc = "parse"
    /\ pc' = "parsed"
    /\ result' = <<validate_and_parse_salts(command.salt[1], built_pkgs)>>
    /\ UNCHANGED <<command, built_pkgs, contract_salt_map, wallet_mode,
                   owner_account_address, idx, salt, call, deployed_chunks,
                   deployed_contract_id, deployed_contracts, txs, artifacts,
                   manifests, chunks, bytecode, contract_chunks>>

NextParse == ParseStep

InitParse ==
    /\ pc = "parse"
    /\ command \in ParseCommands
    /\ built_pkgs \in ParseWorkspaces
    /\ contract_salt_map = <<>>
    /\ wallet_mode = "unset"
    /\ owner_account_address = DefaultAddress
    /\ idx = 1
    /\ salt = NoSalt
    /\ call = NoCall
    /\ deployed_chunks = <<>>
    /\ deployed_contract_id = <<>>
    /\ deployed_contracts = <<>>
    /\ result = <<>>
    /\ txs = <<>>
    /\ artifacts = {}
    /\ manifests = <<<<>>, <<>>>>
    /\ chunks = <<>>
    /\ bytecode = <<>>
    /\ contract_chunks = <<>>

SpecParse == InitParse /\ [][NextParse]_vars

----------------------------------------------------------------------------
(* Properties *)

DeployTxs == {j \in DOMAIN txs : txs[j].role # "set_target"}

\* The submission failed: the node gave no success, or the call returned an
\* error.
FailedTx(t) ==
    \/ t.status \notin {"InFlight", "Success"}
    \/ t.returned # <<>> /\ t.returned[1].kind # "ok"

\* The files written for a submission.
ArtifactsOf(t) ==
    {f \in artifacts : f.pkg_name = ManifestName(t.role, t.pkg) /\ f.contract_id = t.id}

IsTimeoutError(e) ==
    /\ e.kind = "err"
    /\ e.msg \in {"contract deployment timed out",
                  "Timed out waiting for contract to deploy. The transaction may have been dropped."}

IsRejectionError(e, status) ==
    /\ e.kind = "err"
    /\ e.msg = "contract failed to deploy due to an error"
    /\ e.detail[2] = status

IsCommunicationError(e) == e.kind = "err" /\ e.msg = "io::Error"

\* The positions of the contracts of the workspace, and the m-th of them.
ContractPositions == {i \in DOMAIN built_pkgs : built_pkgs[i].is_contract}

NthContract(m) ==
    CHOOSE i \in ContractPositions :
        Cardinality({j \in ContractPositions : j <= i}) = m

\* C1: once a step of the run fails, the run ends with that one error: the
\* failed submission is the last transaction handed to the node, nothing is
\* submitted, written or returned afterwards, and a list is returned only
\* when every package was gone through.
C1_FailureEndsRun ==
    /\ [](/\ (result # <<>>) <=> (pc = "done")
          /\ \A j \in DOMAIN txs :
                 FailedTx(txs[j]) =>
                     /\ j = Len(txs)
                     /\ pc = "done"
                     /\ result = txs[j].returned
                     /\ result[1].kind = "err"
          /\ (result # <<>> /\ result[1].kind = "ok") =>
                 /\ result[1].value = deployed_contracts
                 /\ built_pkgs = <<>> \/ idx > Len(built_pkgs))
    /\ [][/\ result # <<>> =>
                UNCHANGED <<txs, artifacts, manifests, deployed_contracts, result>>
          /\ (pc = "proxy_deployed" /\ manifests' = manifests) =>
                (pc' = "done" /\ result' # <<>> /\ result'[1].kind = "err")]_vars

\* C1 witness: the second submission of the first package failed, the run is
\* over with an error, and the second package, a contract, was never begun.
C1_Witness ==
    /\ pc = "done"
    /\ result[1].kind = "err"
    /\ Len(txs) >= 2
    /\ FailedTx(Last(txs))
    /\ idx = 1
    /\ Len(built_pkgs) = 2
    /\ built_pkgs[2].is_contract

\* C2 as stated: a submission has an artifact file if and only if the node
\* reported Success for it, and then exactly one.
C2_ArtifactIffSuccess ==
    \A j \in DeployTxs :
        /\ (ArtifactsOf(txs[j]) # {}) <=> (txs[j].status = "Success")
        /\ txs[j].status = "Success" => Cardinality(ArtifactsOf(txs[j])) = 1

\* C2, amended: an artifact file exists only for a submission the node
\* reported Success for; a Success for which deploy_pkg returns the id has
\* exactly one artifact, fully written; a Success without it is one whose
\* artifact write failed, deploy_pkg returning that error.
C2_ArtifactOnlyOnSuccess ==
    \A j \in DeployTxs :
        LET t == txs[j]
        IN  /\ ArtifactsOf(t) # {} => t.status = "Success"
            /\ t.status = "Success" =>
                   IF t.returned[1].kind = "ok"
                   THEN ArtifactsOf(t) =
                            {Artifact(ManifestName(t.role, t.pkg), t.id, "written")}
                   ELSE /\ t.returned[1].msg = "to_file"
                        /\ Cardinality(ArtifactsOf(t)) <= 1
                        /\ \A f \in ArtifactsOf(t) : f.state # "written"

\* C2 witness: one submission succeeded and has its artifact, a later one
\* was left pending by the node and has none.
C2_Witness ==
    /\ Len(txs) >= 2
    /\ txs[1].status = "Success"
    /\ Cardinality(ArtifactsOf(txs[1])) = 1
    /\ Last(txs).status = "Submitted"
    /\ ArtifactsOf(Last(txs)) = {}

\* The outcome classes of C3 other than Success.
C3_ErrorClasses(t) ==
    /\ t.status \in {"Submitted", "Elapsed"} =>
           /\ IsTimeoutError(t.returned[1])
           /\ ~IsRejectionError(t.returned[1], t.status)
    /\ t.status \in {"Failure", "SqueezedOut"} =>
           /\ IsRejectionError(t.returned[1], t.status)
           /\ ~IsTimeoutError(t.returned[1])
    /\ t.status = "io::Error" => IsCommunicationError(t.returned[1])

\* C3 as stated: the node's response alone decides what deploy_pkg returns:
\* the contract id on Success, a timeout error when pending or out of time,
\* a rejection error with the status on any other status, a communication
\* error on a transport error.
C3_OutcomeByResponse ==
    \A j \in DeployTxs :
        LET t == txs[j]
        IN  /\ (t.status = "InFlight") <=> (t.returned = <<>>)
            /\ t.status = "Success" => t.returned = <<Ok(t.id)>>
            /\ C3_ErrorClasses(t)

\* C3, amended: as stated, but on Success deploy_pkg returns the contract id
\* only when the artifact was written, and the artifact write's error
\* otherwise.
C3_OutcomeByResponseAndWrite ==
    \A j \in DeployTxs :
        LET t == txs[j]
        IN  /\ (t.status = "InFlight") <=> (t.returned = <<>>)
            /\ t.status = "Success" =>
                   \/ t.returned = <<Ok(t.id)>>
                   \/ t.returned[1].kind = "err" /\ t.returned[1].msg = "to_file"
            /\ C3_ErrorClasses(t)

\* C3 witness: a submission the node left pending ended in a timeout error,
\* after one that succeeded and returned its id.
C3_Witness ==
    /\ Len(txs) >= 2
    /\ txs[1].returned = <<Ok(txs[1].id)>>
    /\ Last(txs).status = "Submitted"
    /\ IsTimeoutError(Last(txs).returned[1])

\* The salts the --salt arguments give the package at position i: those
\* labelled with its name in a workspace, the bare one for a single package.
SaltGiven == command.salt # <<>>

EntrySalts(i) ==
    IF ~SaltGiven THEN {}
    ELSE LET args == command.salt[1]
         IN  IF Len(built_pkgs) > 1
             THEN {SaltFromStr(args[k].salt)[1] :
                      k \in {x \in DOMAIN args : args[x].label = <<PkgName(i)>>}}
             ELSE {SaltFromStr(args[k].salt)[1] : k \in DOMAIN args}

\* C4 as stated: with default-salt off the package's salt is its map entry
\* when there is one and a random salt when there is none, whether or not
\* --salt was given; with default-salt on and no entry it is the zero salt.
C4_NoEntryIsRandom ==
    salt.from # "unset" =>
        /\ ~command.default_salt =>
               IF EntrySalts(idx) # {}
               THEN salt.from = "map entry" /\ salt.value \in EntrySalts(idx)
               ELSE salt.from = "rand::random()"
        /\ (command.default_salt /\ EntrySalts(idx) = {}) =>
               (salt.from = "Default::default()" /\ salt.value = ZeroSalt)

\* C4, amended: with default-salt off the package's salt is its map entry
\* when there is one; when --salt was given and names no entry for the
\* package it is the zero salt; when --salt was not given it is random.
\* With default-salt on and no --salt it is the zero salt.
C4_NoEntryIsZeroUnderSalt ==
    salt.from # "unset" =>
        /\ ~(SaltGiven /\ command.default_salt)
        /\ ~command.default_salt =>
               IF EntrySalts(idx) # {}
               THEN salt.from = "map entry" /\ salt.value \in EntrySalts(idx)
               ELSE IF SaltGiven
               THEN salt.from = "Default::default()" /\ salt.value = ZeroSalt
               ELSE salt.from = "rand::random()"
        /\ command.default_salt =>
               (salt.from = "Default::default()" /\ salt.value = ZeroSalt)

\* C4 witness: --salt names the first package only, default-salt is off, and
\* the second package is being deployed with the zero salt; the first was
\* deployed with its entry.
C4_Witness ==
    /\ SaltGiven
    /\ ~command.default_salt
    /\ idx = 2
    /\ EntrySalts(2) = {}
    /\ salt.from = "Default::default()"
    /\ txs # <<>>
    /\ txs[1].id.salt \in EntrySalts(1)
    /\ Last(txs).pkg = 2

\* C5 as stated: a run given --salt and default-salt submits nothing and ends
\* in an error, whatever the package list.
C5_BothFlagsAlwaysFail ==
    (SaltGiven /\ command.default_salt) =>
        /\ txs = <<>>
        /\ pc = "done" => result[1].kind # "ok"

\* C5, amended: a run given --salt and default-salt submits nothing; it ends
\* in an error when the package list holds a contract, and returns the empty
\* list when the list is empty or holds no contract.
C5_BothFlagsFailAtFirstContract ==
    (SaltGiven /\ command.default_salt) =>
        /\ txs = <<>>
        /\ (pc = "done" /\ ContractPositions # {}) => result[1].kind # "ok"
        /\ (pc = "done" /\ result[1].kind = "ok") => result[1].value = <<>>

\* C5 witness: both were given, the salt names none of the packages, and the
\* run ended at its first contract with the error, nothing submitted.
C5_Witness ==
    /\ SaltGiven
    /\ command.default_salt
    /\ pc = "done"
    /\ ContractPositions # {}
    /\ \A i \in DOMAIN built_pkgs : EntrySalts(i) = {}
    /\ result[1].kind = "err"
    /\ result[1].msg = "Both --salt and --default-salt were specified: must choose one"
    /\ txs = <<>>

\* The number of chunks of the package at position i.
NumChunks(i) == CeilDiv(built_pkgs[i].len, MAX_CONTRACT_SIZE)

\* The ids of the chunks of package i, in the order they were submitted.
ChunkTxIds(i) ==
    LET sel == SelectSeq(txs, LAMBDA t : t.role = "chunk" /\ t.pkg = i)
    IN  [k \in DOMAIN sel |-> sel[k].id]

\* C6: only the last transaction may be in flight; the chunks of a package
\* are submitted in segment order, each after the one before it committed;
\* the loader is submitted right after the last of them committed; and the
\* list of chunk ids the loader is built from, and the one returned, has one
\* id per chunk, in the order of deployment.
C6_LoaderAfterChunksInOrder ==
    /\ \A j \in DOMAIN txs : j < Len(txs) => txs[j].status # "InFlight"
    /\ \A j \in DOMAIN txs :
           txs[j].role = "chunk" =>
               LET k == txs[j].id.code[3]
               IN  /\ k \in 1..NumChunks(txs[j].pkg)
                   /\ k > 1 =>
                          /\ txs[j - 1].role = "chunk"
                          /\ txs[j - 1].pkg = txs[j].pkg
                          /\ txs[j - 1].id.code[3] = k - 1
                          /\ txs[j - 1].returned = <<Ok(txs[j - 1].id)>>
    /\ \A j \in DOMAIN txs :
           txs[j].role = "loader" =>
               LET n == NumChunks(txs[j].pkg)
               IN  /\ j > n
                   /\ \A k \in 1..n :
                          /\ txs[j - n + k - 1].role = "chunk"
                          /\ txs[j - n + k - 1].pkg = txs[j].pkg
                          /\ txs[j - n + k - 1].id.code[3] = k
                          /\ txs[j - n + k - 1].status = "Success"
    /\ call.role = "loader" =>
           /\ Len(deployed_chunks) = NumChunks(idx)
           /\ deployed_chunks = ChunkTxIds(idx)
    /\ (deployed_contract_id # <<>> /\ deploy_chunked_needed(built_pkgs[idx].len)) =>
           /\ Len(deployed_contract_id[1].chunk_ids) = NumChunks(idx)
           /\ deployed_contract_id[1].chunk_ids = ChunkTxIds(idx)

\* C6 witness: a package of three chunks has its loader deployed and the
\* three chunk ids returned.
C6_Witness ==
    /\ deployed_contract_id # <<>>
    /\ NumChunks(idx) = 3
    /\ Len(deployed_contract_id[1].chunk_ids) = 3
    /\ Last(txs).role = "loader"
    /\ Last(txs).status = "Success"

\* C7: bytecode longer than MAX_CONTRACT_SIZE is split into ceil(L / M)
\* segments of at most M bytes each, which put together in order are the
\* bytecode.
C7_SplitIsExact ==
    pc = "split_done" =>
        /\ Len(contract_chunks) = CeilDiv(Len(bytecode), MAX_CONTRACT_SIZE)
        /\ \A k \in DOMAIN contract_chunks :
               Len(contract_chunks[k]) \in 1..MAX_CONTRACT_SIZE
        /\ Concat(contract_chunks) = bytecode

\* C7 witness: bytecode of the longest length is split into at least three
\* segments, the first two full.
C7_Witness ==
    /\ pc = "split_done"
    /\ Len(bytecode) = MaxBytecodeLen
    /\ Len(contract_chunks) >= 3
    /\ Len(contract_chunks[1]) = MAX_CONTRACT_SIZE
    /\ Len(contract_chunks[2]) = MAX_CONTRACT_SIZE
    /\ Len(contract_chunks[3]) = MaxBytecodeLen - 2 * MAX_CONTRACT_SIZE

ProxyEnabledNoAddress(i) ==
    /\ built_pkgs[i].proxy # <<>>
    /\ built_pkgs[i].proxy[1].enabled
    /\ built_pkgs[i].proxy[1].address = <<>>

ProxyEnabledWithAddress(i) ==
    /\ built_pkgs[i].proxy # <<>>
    /\ built_pkgs[i].proxy[1].enabled
    /\ built_pkgs[i].proxy[1].address # <<>>

ImplSucceeded(i) ==
    \E j \in DOMAIN txs :
        /\ txs[j].pkg = i
        /\ txs[j].role \in {"direct", "loader"}
        /\ txs[j].returned = <<Ok(txs[j].id)>>

ProxyTxs(i) == {j \in DOMAIN txs : txs[j].role = "proxy" /\ txs[j].pkg = i}

C9_ManifestOnlyAfterNewProxy ==
    \A i \in DOMAIN manifests :
        \/ manifests[i] = ManifestsOf(built_pkgs)[i]
        \/ /\ ProxyEnabledNoAddress(i)
           /\ \E j \in ProxyTxs(i) :
                  /\ txs[j].returned = <<Ok(txs[j].id)>>
                  /\ manifests[i] = <<Hex(txs[j].id)>>

\* C9 witness: a manifest was rewritten, and another package's proxy
\* deployment failed and left its manifest as it was.
C9_Witness ==
    /\ Len(built_pkgs) = 2
    /\ manifests[1] # ManifestsOf(built_pkgs)[1]
    /\ ProxyTxs(2) # {}
    /\ FailedTx(Last(txs))
    /\ manifests[2] = <<>>

\* C10: the list returned has one entry per contract of the workspace, in
\* the order of the workspace; the id of an entry is that of the loader when
\* the package is longer than MAX_CONTRACT_SIZE and that of the package's
\* own deployment otherwise; no chunk id is the id of an entry.
C10_ResultPerContractInOrder ==
    (result # <<>> /\ result[1].kind = "ok") =>
        LET list == result[1].value
        IN  /\ Len(list) = Cardinality(ContractPositions)
            /\ \A m \in DOMAIN list :
                   LET i    == NthContract(m)
                       role == IF built_pkgs[i].len > MAX_CONTRACT_SIZE
                               THEN "loader" ELSE "direct"
                   IN  /\ \E j \in DOMAIN txs :
                              /\ txs[j].pkg = i
                              /\ txs[j].role = role
                              /\ txs[j].id = list[m].id
                       /\ \A j \in DOMAIN txs :
                              txs[j].role = "chunk" => txs[j].id # list[m].id

\* C10 witness: the run returned two entries, the first for a chunked
\* package, the second for one deployed directly, a package that is no
\* contract having been skipped.
C10_Witness ==
    /\ result # <<>>
    /\ result[1].kind = "ok"
    /\ Len(result[1].value) = 2
    /\ result[1].value[1].id.code[1] = "loader"
    /\ result[1].value[2].id.code[1] = "direct"

----------------------------------------------------------------------------
(* Properties of validate_and_parse_salts *)

\* The arguments the call was given.
GivenArgs == command.salt[1]

\* name:hex with a hex text that is a salt.
WellFormedArg(a) == a.label # <<>> /\ a.salt.form # "bad"

\* The salt a well-formed argument spells.
SuppliedSalt(a) == a.salt.digits[1]

\* The positions that repeat the name of an earlier argument.
Repeats ==
    {j \in DOMAIN GivenArgs :
        /\ GivenArgs[j].label # <<>>
        /\ \E i \in 1..(j - 1) : GivenArgs[i].label = GivenArgs[j].label}

FirstRepeat == CHOOSE j \in Repeats : \A k \in Repeats : j <= k

\* The position of the first argument that carries the name of argument j.
FirstNamed(j) ==
    CHOOSE i \in 1..j :
        /\ GivenArgs[i].label = GivenArgs[j].label
        /\ \A k \in 1..(i - 1) : GivenArgs[k].label # GivenArgs[j].label

\* The arguments among the first n that are not well-formed.
IllFormedUpTo(n) == {k \in 1..n : ~WellFormedArg(GivenArgs[k])}

\* The names the contract dependencies of the manifests stand for.
DepPkgNames ==
    UNION {{dep_pkg_name(built_pkgs[i].contract_deps[d]) :
               d \in DOMAIN built_pkgs[i].contract_deps} : i \in DOMAIN built_pkgs}

\* C11 as stated: for every argument list in which two entries carry the
\* same name the call fails with the duplicate error, which reports the two
\* salts supplied for one such name, the earlier first.
C11_DuplicateAlwaysReported ==
    (pc = "parsed" /\ Repeats # {}) =>
        /\ result[1].kind = "err"
        /\ result[1].msg = "2 salts provided for contract"
        /\ \E j \in Repeats : \E i \in 1..(j - 1) :
               /\ GivenArgs[i].label = GivenArgs[j].label
               /\ WellFormedArg(GivenArgs[i])
               /\ WellFormedArg(GivenArgs[j])
               /\ result[1].detail = <<GivenArgs[j].label[1],
                                       SaltDisplay(SuppliedSalt(GivenArgs[i])),
                                       SaltDisplay(SuppliedSalt(GivenArgs[j]))>>

\* C11, amended: a list in which two entries carry the same name never
\* yields a map.  The arguments are gone through in order: when all of them
\* up to the first repeated name are well-formed the call fails with the
\* duplicate error, reporting the salt of the first entry of that name and
\* then that of the repeat, whatever the manifests declare; when the first
\* ill-formed one among them has no ':' the call fails with the format error;
\* when it has a ':' and a text that is no hex salt the call panics.
C11_FirstRepeatReportedInOrder ==
    (pc = "parsed" /\ Repeats # {}) =>
        LET j   == FirstRepeat
            i   == FirstNamed(j)
            bad == IllFormedUpTo(j)
        IN  IF bad = {}
            THEN result[1] = Err("2 salts provided for contract",
                                 <<GivenArgs[j].label[1],
                                   SaltDisplay(SuppliedSalt(GivenArgs[i])),
                                   SaltDisplay(SuppliedSalt(GivenArgs[j]))>>)
            ELSE LET k == CHOOSE x \in bad : \A y \in bad : x <= y
                 IN  IF GivenArgs[k].label = <<>>
                     THEN /\ result[1].kind = "err"
                          /\ result[1].msg = "Invalid salt provided - salt must be in the form <CONTRACT_NAME>:<SALT> when deploying a workspace"
                     ELSE result[1].kind = "panic"

\* C11 witness: the same name twice with the same salt, the name being one
\* a manifest pins a salt for: the duplicate error, the salt quoted twice.
C11_Witness ==
    /\ pc = "parsed"
    /\ Len(GivenArgs) = 2
    /\ GivenArgs[1] = GivenArgs[2]
    /\ WellFormedArg(GivenArgs[1])
    /\ GivenArgs[1].label[1] \in DepPkgNames
    /\ result[1].msg = "2 salts provided for contract"
    /\ result[1].detail[2] = result[1].detail[3]

\* The names the arguments carry.
CliNames ==
    {GivenArgs[k].label[1] : k \in {x \in DOMAIN GivenArgs : GivenArgs[x].label # <<>>}}

\* The contract dependencies, as <<manifest, position>>, whose package name
\* an argument carries.
PinnedAndGiven ==
    {p \in (DOMAIN built_pkgs) \X (1..2) :
        /\ p[2] \in DOMAIN built_pkgs[p[1]].contract_deps
        /\ dep_pkg_name(built_pkgs[p[1]].contract_deps[p[2]]) \in CliNames}

\* The first of them in the order the manifests and their dependencies are
\* gone through.
FirstPinnedAndGiven ==
    CHOOSE p \in PinnedAndGiven :
        \A q \in PinnedAndGiven : p[1] < q[1] \/ (p[1] = q[1] /\ p[2] <= q[2])

\* The first pass over the arguments goes through: all are well-formed and
\* no name is repeated.
ArgsAccepted == IllFormedUpTo(Len(GivenArgs)) = {} /\ Repeats = {}

\* C12 as stated: whenever an argument carries the package name of a
\* contract dependency of some manifest, the call fails with the
\* redeclaration error, which names such a dependency, its manifest, the
\* pinned salt and then the salt of the argument.
C12_RedeclarationAlwaysReported ==
    (pc = "parsed" /\ PinnedAndGiven # {}) =>
        /\ result[1].kind = "err"
        /\ result[1].msg = "Redeclaration of salt using the option '--salt'"
        /\ \E p \in PinnedAndGiven : \E k \in DOMAIN GivenArgs :
               LET dep == built_pkgs[p[1]].contract_deps[p[2]]
               IN  /\ GivenArgs[k].label = <<dep_pkg_name(dep)>>
                   /\ WellFormedArg(GivenArgs[k])
                   /\ result[1].detail = <<dep_pkg_name(dep), PkgName(p[1]),
                                           SaltHex(dep.salt),
                                           SaltHex(SuppliedSalt(GivenArgs[k]))>>

\* C12, amended: when an argument carries the package name of a contract
\* dependency the call never returns a map.  When all arguments are
\* well-formed and their names distinct it fails with the redeclaration
\* error for the first such dependency in manifest order: the dependency's
\* package name, the manifest, the pinned salt, then the salt of the
\* argument, equal or not.  Otherwise the failure is that of the arguments
\* (format error, duplicate error or panic), not the redeclaration error.
C12_RedeclarationOnceArgsAccepted ==
    (pc = "parsed" /\ PinnedAndGiven # {}) =>
        IF ArgsAccepted
        THEN LET p   == FirstPinnedAndGiven
                 dep == built_pkgs[p[1]].contract_deps[p[2]]
                 k   == CHOOSE x \in DOMAIN GivenArgs :
                            GivenArgs[x].label = <<dep_pkg_name(dep)>>
             IN  result[1] = Err("Redeclaration of salt using the option '--salt'",
                                 <<dep_pkg_name(dep), PkgName(p[1]), SaltHex(dep.salt),
                                   SaltHex(SuppliedSalt(GivenArgs[k]))>>)
        ELSE /\ result[1].kind # "ok"
             /\ result[1].msg # "Redeclaration of salt using the option '--salt'"

\* C12 witness: the argument names, by its package name, a dependency that a
\* manifest declares under an alias, with the very salt the manifest pins;
\* the error quotes that salt twice.
C12_Witness ==
    /\ pc = "parsed"
    /\ ArgsAccepted
    /\ PinnedAndGiven # {}
    /\ result[1].msg = "Redeclaration of salt using the option '--salt'"
    /\ result[1].detail[1] = PkgName(2)
    /\ result[1].detail[3] = result[1].detail[4]

\* C13 as stated: when an argument is not of the form name:hex -- it has no
\* ':', or the text after the ':' is no hex salt -- the call returns an error
\* value, never panics and never returns a map; the error is the format
\* error when that argument is reached before any repeated name.
C13_MalformedIsFormatError ==
    (pc = "parsed" /\ IllFormedUpTo(Len(GivenArgs)) # {}) =>
        LET bad == IllFormedUpTo(Len(GivenArgs))
            k   == CHOOSE x \in bad : \A y \in bad : x <= y
        IN  /\ result[1].kind = "err"
            /\ (Repeats \cap (1..k) = {}) =>
                   result[1].msg = "Invalid salt provided - salt must be in the form <CONTRACT_NAME>:<SALT> when deploying a workspace"

\* C13 witness: the one argument has a ':' and a text after it that is no
\* hex salt: the call panicked.
C13_Witness ==
    /\ pc = "parsed"
    /\ Len(GivenArgs) = 1
    /\ GivenArgs[1].label # <<>>
    /\ GivenArgs[1].salt = BadText
    /\ result[1].kind = "panic"

\* What C14 says of the map for well-formed arguments of distinct names that
\* no manifest pins: the call succeeds, and the map has one entry per
\* argument, the salt the argument spells under its name.
MapOfArguments ==
    /\ result[1].kind = "ok"
    /\ DOMAIN result[1].value = CliNames
    /\ Cardinality(DOMAIN result[1].value) = Len(GivenArgs)
    /\ \A k \in DOMAIN GivenArgs :
           result[1].value[GivenArgs[k].label[1]] = SuppliedSalt(GivenArgs[k])

----------------------------------------------------------------------------
(* Properties of the run, continued *)

\* C15 as stated: in a run of a single package, one --salt argument whose
\* hex text is a salt is accepted with a label or without one, and its salt
\* is the one the package is deployed with; with more than one argument the
\* run fails with the usage error and nothing is submitted.
C15_SingleSaltLabelledOrNot ==
    (/\ Len(built_pkgs) = 1
     /\ SaltGiven
     /\ pc # "start"
     /\ result # <<Err("built_pkgs", <<>>)>>) =>
        LET args == command.salt[1]
        IN  /\ (Len(args) = 1 /\ args[1].salt.form # "bad") =>
                   /\ contract_salt_map =
                          <<MapInsert(EmptyMap, PkgName(1), SuppliedSalt(args[1]))>>
                   /\ salt.from # "unset" =>
                          salt = [value |-> SuppliedSalt(args[1]), from |-> "map entry"]
            /\ Len(args) > 1 =>
                   /\ result = <<Err("More than 1 salt was specified when deploying a single contract", <<>>)>>
                   /\ txs = <<>>

\* C15 witness: the single package is a contract, the one argument names it
\* and spells a salt, and the run panicked with nothing submitted.
C15_Witness ==
    /\ Len(built_pkgs) = 1
    /\ built_pkgs[1].is_contract
    /\ SaltGiven
    /\ command.salt[1] = <<SaltArg(<<PkgName(1)>>, HexText(TRUE, 1))>>
    /\ pc = "done"
    /\ result[1].kind = "panic"
    /\ txs = <<>>

\* C16 as stated: a submission for which deploy_pkg returned a contract id
\* is one whose contract the network holds under that very id; when the
\* network holds it under another id, deploy_pkg returned an error.
C16_ReturnedIdIsNetworkId ==
    \A j \in DeployTxs :
        LET t == txs[j]
        IN  /\ (t.returned # <<>> /\ t.returned[1].kind = "ok") =>
                   t.network_id = <<t.returned[1].value>>
            /\ (t.network_id # <<>> /\ t.network_id # <<t.id>>) =>
                   t.returned[1].kind = "err"

\* C16 witness: the node committed the deployment under another id than the
\* one computed, and deploy_pkg returned the computed id and wrote the
\* artifact for it.
C16_Witness ==
    /\ txs # <<>>
    /\ txs[1].status = "Success"
    /\ txs[1].network_id = <<ForeignId>>
    /\ txs[1].returned = <<Ok(txs[1].id)>>
    /\ ArtifactsOf(txs[1]) # {}

\* The run is given --unsigned and neither --default-signer nor a key.
UnsignedAlone ==
    command.unsigned /\ ~command.default_signer /\ command.signing_key = <<>>

\* The password of the forc wallet was asked for (line 298): the prompt
\* failed, or the mode that carries the password was entered.
PasswordPrompted ==
    \/ wallet_mode = "ForcWallet"
    \/ result = <<Err("prompt_forc_wallet_password", <<>>)>>

\* C17 as stated: a run with --unsigned alone is in Manual mode, asks for no
\* wallet password, signs every transaction (deployment and set-target) with
\* the default test signer and builds every new proxy with that signer's
\* address as owner.
C17_UnsignedIsDefaultSigner ==
    UnsignedAlone =>
        /\ wallet_mode \in {"unset", "Manual"}
        /\ ~PasswordPrompted
        /\ \A j \in DOMAIN txs :
               /\ txs[j].signer = "default signer"
               /\ txs[j].role = "proxy" => txs[j].owner = AddressOf("default signer")

\* C17 witness: with --unsigned alone the password was asked for and a
\* deployment was signed with an account of the forc wallet.
C17_Witness ==
    /\ UnsignedAlone
    /\ wallet_mode = "ForcWallet"
    /\ txs # <<>>
    /\ txs[1].signer = "wallet account"

\* The step ends the run with an error.
FailingStep == result = <<>> /\ result' # <<>> /\ result'[1].kind # "ok"

\* C18: no step removes or rewrites an artifact file, and none touches a
\* transaction the node has answered; the step at which the run fails
\* writes no complete artifact, leaves the manifests and the result list as
\* they are and hands the node nothing but, at most, the call that failed;
\* after it nothing is submitted, written or cancelled.
C18_FailureLeavesCommittedUntouched ==
    [][/\ artifacts \subseteq artifacts'
       /\ \A j \in DOMAIN txs :
              /\ j \in DOMAIN txs'
              /\ txs[j].status # "InFlight" => txs'[j] = txs[j]
       /\ FailingStep =>
              /\ \A f \in artifacts' \ artifacts : f.state # "written"
              /\ manifests' = manifests
              /\ deployed_contracts' = deployed_contracts
              /\ \A j \in (DOMAIN txs') \ (DOMAIN txs) : FailedTx(txs'[j])
       /\ result # <<>> => UNCHANGED <<txs, artifacts, manifests>>]_vars

\* C18 witness: the second package failed after its first chunk was
\* committed; the artifact of the first package and that of the chunk are
\* in place.
C18_Witness ==
    /\ pc = "done"
    /\ result[1].kind = "err"
    /\ Len(built_pkgs) = 2
    /\ idx = 2
    /\ Len(txs) >= 3
    /\ FailedTx(Last(txs))
    /\ txs[Len(txs) - 1].role = "chunk"
    /\ txs[Len(txs) - 1].pkg = 2
    /\ \A j \in 1..(Len(txs) - 1) :
           ArtifactsOf(txs[j]) = {Artifact(ManifestName(txs[j].role, txs[j].pkg),
                                           txs[j].id, "written")}

SetTargetTxs(i) == {j \in DOMAIN txs : txs[j].role = "set_target" /\ txs[j].pkg = i}

\* The set-target call j points the proxy the manifest names at the id of
\* the package's implementation (of its loader when chunked), deployed with
\* success before the call.
SetTargetAfterImpl(j) ==
    LET i    == txs[j].pkg
        role == IF deploy_chunked_needed(built_pkgs[i].len) THEN "loader" ELSE "direct"
    IN  /\ ProxyEnabledWithAddress(i)
        /\ Hex(txs[j].id) = built_pkgs[i].proxy[1].address[1]
        /\ \E k \in 1..(j - 1) :
               /\ txs[k].pkg = i
               /\ txs[k].role = role
               /\ txs[k].returned = <<Ok(txs[k].id)>>
               /\ txs[j].target = <<txs[k].id>>

\* The run failed for want of a key for set-target.
NoKeyForSetTarget ==
    /\ result # <<>>
    /\ result[1].msg = "proxy contract deployments are not supported with manual prompt based signing"

NewProxyTxs == {j \in DOMAIN txs : txs[j].role = "proxy"}

\* C20 as stated: in every wallet mode the owner a new proxy is built with
\* is the address the run's owner variable holds from the first new-proxy
\* deployment on.
C20_OwnerStoredInEveryMode ==
    \A j \in NewProxyTxs :
        /\ owner_account_address # DefaultAddress
        /\ txs[j].owner = owner_account_address

\* C20, amended: in ForcWallet mode the owner resolved by the first
\* new-proxy deployment is stored in the run's owner variable and every new
\* proxy is built with the stored value; in Manual mode the variable keeps
\* its default and every new-proxy deployment derives the owner again from
\* the manual key, the same address each time; once the variable holds an
\* address other than the default it is never written again.
C20_OwnerStoredInWalletModeOnly ==
    /\ [](/\ wallet_mode # "ForcWallet" => owner_account_address = DefaultAddress
          /\ \A j \in NewProxyTxs :
                 IF wallet_mode = "ForcWallet"
                 THEN /\ owner_account_address # DefaultAddress
                      /\ txs[j].owner = owner_account_address
                 ELSE txs[j].owner =
                          AddressOf(select_manual_secret_key(command.default_signer,
                                                             command.signing_key)[1]))
    /\ [][owner_account_address # DefaultAddress =>
              owner_account_address' = owner_account_address]_vars

\* C20 witness: in Manual mode the second package's proxy is being deployed:
\* both proxies have the same owner and the owner variable holds the default.
C20_Witness ==
    /\ wallet_mode = "Manual"
    /\ Cardinality(NewProxyTxs) = 2
    /\ \A j \in NewProxyTxs : txs[j].owner = AddressOf("default signer")
    /\ owner_account_address = DefaultAddress

----------------------------------------------------------------------------
(* The run over bytecode of every size around the limit *)

\* Lengths of bytecode: none, one below the limit, the limit, one above it
\* and the longest.
SizeLens ==
    {0, MAX_CONTRACT_SIZE - 1, MAX_CONTRACT_SIZE, MAX_CONTRACT_SIZE + 1, MaxBytecodeLen}

SizeCommands ==
    {[salt |-> <<>>, default_salt |-> TRUE, default_signer |-> TRUE,
      unsigned |-> FALSE, node |-> "validating", signing_key |-> <<>>]}

\* A contract of each length with no proxy table, a package that is no
\* contract, and one contract on each side of the limit with a proxy.
SizePackagesAt(i) ==
    {Package(TRUE, len, TRUE, <<>>) : len \in SizeLens}
        \cup {Package(FALSE, MAX_CONTRACT_SIZE + 1, TRUE, <<>>),
              Package(TRUE, MAX_CONTRACT_SIZE, TRUE, ProxyTable(TRUE, <<>>)),
              Package(TRUE, MAX_CONTRACT_SIZE + 1, TRUE,
                      ProxyTable(TRUE, <<Hex(ExistingProxy(i))>>))}

SizeWorkspaces(n) ==
    {ws \in [1..n -> UNION {SizePackagesAt(i) : i \in 1..n}] :
        \A i \in 1..n : ws[i] \in SizePackagesAt(i)}

InitSize == InitRun(SizeCommands, UNION {SizeWorkspaces(n) : n \in 0..MaxPkgs})

SpecSize == InitSize /\ [][Next]_vars

----------------------------------------------------------------------------
(* C21: chunked exactly above MAX_CONTRACT_SIZE *)

\* The transactions that submit the bytecode of package i whole.
DirectTxs(i) == {j \in DOMAIN txs : txs[j].role = "direct" /\ txs[j].pkg = i}

\* The transactions of the chunked deployment of package i.
ChunkedTxs(i) == {j \in DOMAIN txs : txs[j].role \in {"chunk", "loader"} /\ txs[j].pkg = i}

\* The implementation of package i has been deployed and the run is past it
\* or at its proxy.
ImplDone(i) ==
    \/ i < idx /\ built_pkgs[i].is_contract
    \/ i = idx /\ deployed_contract_id # <<>>

\* C21: a package is deployed chunked exactly when its bytecode is longer
\* than MAX_CONTRACT_SIZE: one of MAX_CONTRACT_SIZE bytes or fewer is
\* submitted whole, once, with an empty list of chunks and never in chunks;
\* a longer one is never submitted whole, and no chunk submitted is longer
\* than MAX_CONTRACT_SIZE.
C21_ChunkedIffAboveLimit ==
    /\ \A i \in DOMAIN built_pkgs :
           IF built_pkgs[i].len <= MAX_CONTRACT_SIZE
           THEN /\ ChunkedTxs(i) = {}
                /\ Cardinality(DirectTxs(i)) <= 1
                /\ ImplDone(i) => Cardinality(DirectTxs(i)) = 1
           ELSE /\ DirectTxs(i) = {}
                /\ ImplDone(i) => ChunkedTxs(i) # {}
    /\ deployed_contract_id # <<>> =>
           (deployed_contract_id[1].chunk_ids = <<>>
                <=> built_pkgs[idx].len <= MAX_CONTRACT_SIZE)
    /\ \A k \in DOMAIN chunks : chunks[k].size <= MAX_CONTRACT_SIZE
    /\ (pc \in {"deploy_pkg", "await"} /\ call.role = "direct") =>
           built_pkgs[idx].len <= MAX_CONTRACT_SIZE
    /\ (pc \in {"deploy_pkg", "await"} /\ call.role \in {"chunk", "loader"}) =>
           built_pkgs[idx].len > MAX_CONTRACT_SIZE

\* C21 witness: a package of MAX_CONTRACT_SIZE + 1 bytes was deployed in
\* chunks, and after it one of exactly MAX_CONTRACT_SIZE bytes by one
\* submission of the whole bytecode, with no chunk ids.
C21_Witness ==
    /\ Len(built_pkgs) = 2
    /\ built_pkgs[1].len = MAX_CONTRACT_SIZE + 1
    /\ built_pkgs[2].len = MAX_CONTRACT_SIZE
    /\ idx = 2
    /\ deployed_contract_id # <<>>
    /\ deployed_contract_id[1].chunk_ids = <<>>
    /\ Cardinality(ChunkedTxs(1)) = 3
    /\ Cardinality(DirectTxs(2)) = 1
    /\ Last(txs).status = "Success"

----------------------------------------------------------------------------
(* C22: a chunked package whose ABI is not the Fuel VM's *)

\* Package i is deployed by deploy_chunked and its ABI is not ProgramABI::Fuel.
UnsupportedAbi(i) ==
    /\ built_pkgs[i].is_contract
    /\ deploy_chunked_needed(built_pkgs[i].len)
    /\ ~built_pkgs[i].abi_fuel

UnsupportedTarget == Err("contract chunking is only supported with fuelVM", <<>>)

\* No loader of package i is built or handed to the node.
NoLoaderOf(i) ==
    /\ \A j \in DOMAIN txs : ~(txs[j].role = "loader" /\ txs[j].pkg = i)
    /\ ~(idx = i /\ call.role = "loader")

UnsupportedAbiNoLoader ==
    \A i \in DOMAIN built_pkgs :
        UnsupportedAbi(i) =>
            /\ NoLoaderOf(i)
            /\ (idx = i /\ result = <<UnsupportedTarget>>) =>
                   /\ Len(ChunkTxIds(i)) = NumChunks(i)
                   /\ \A j \in DOMAIN txs : txs[j].pkg = i => txs[j].status = "Success"

----------------------------------------------------------------------------
(* deploy_pkg up to the transaction, over storage slots in every order *)

\* Longest list of storage slots.
MaxSlots == 3

SlotKeys == {1, 2, 3}

SlotValues == {0, 1}

\* fuel_tx::StorageSlot: a key and a value.
StorageSlot(key, value) == [key |-> key, value |-> value]

\* The lists of storage slots a compiled package or an override file may
\* hold, a key repeated or not.
SlotLists ==
    UNION {[1..n -> {StorageSlot(k, v) : k \in SlotKeys, v \in SlotValues}] :
               n \in 0..MaxSlots}

\* The order of StorageSlot: by key.
SlotLeq(a, b) == a.key <= b.key

\* The sorted list with x put after every slot that is not above it.
insert(sorted, x) ==
    LET n == Cardinality({j \in DOMAIN sorted : SlotLeq(sorted[j], x)})
    IN  SubSeq(sorted, 1, n) \o <<x>> \o SubSeq(sorted, n + 1, Len(sorted))

MutSortKeepsOrder(slots) == slots

\* deploy_pkg, line 447: storage_slots.sort(), a stable sort.
RECURSIVE sort(_)
sort(slots) ==
    IF slots = <<>> THEN <<>>
    ELSE insert(sort(SubSeq(slots, 1, Len(slots) - 1)), slots[Len(slots)])

\* Contract::root of the bytecode.
contract_root(bytes) == <<"root", bytes>>

\* Contract::initial_state_root: a root over the slots in the order given.
initial_state_root(slots) == <<"state root", slots>>

\* Contract::id(salt, root, state_root)
contract_id(s, root, state_root) == [root |-> root, salt |-> s, state_root |-> state_root]

\* The override file of --override-storage-slots: it cannot be read, it is
\* no JSON list of slots, or it holds a list of slots.
OverrideFile(kind, slots) == [kind |-> kind, slots |-> slots]

\* deploy_pkg, lines 440-446: the slots of the override file when one is
\* given, the slots of the compiled package otherwise.
storage_slots_of(override_storage_slots, compiled) ==
    IF override_storage_slots = <<>> THEN Ok(compiled.storage_slots)
    ELSE IF override_storage_slots[1].kind = "unreadable" THEN Err("io::Error", <<>>)
    ELSE IF override_storage_slots[1].kind = "no json" THEN Err("serde_json::Error", <<>>)
    ELSE Ok(override_storage_slots[1].slots)

\* deploy_pkg, lines 447-464: the slots are sorted, the state root and the
\* contract id are computed and the Create transaction is prepared.
prepare_contract_deployment(slots, bytes, s) ==
    LET storage_slots == sort(slots)
        root          == contract_root(bytes)
        state_root    == initial_state_root(storage_slots)
    IN  [bytecode |-> bytes, contract_id |-> contract_id(s, root, state_root),
         state_root |-> state_root, salt |-> s, storage_slots |-> storage_slots]

\* deploy_pkg, lines 436-464
prepare(cmd, compiled, s) ==
    LET slots == storage_slots_of(cmd.override_storage_slots, compiled)
    IN  IF slots.kind # "ok" THEN slots
        ELSE Ok(prepare_contract_deployment(slots.value, compiled.bytecode, s))

SlotCommands ==
    {[salt |-> <<>>, default_salt |-> TRUE, default_signer |-> TRUE,
      unsigned |-> FALSE, node |-> "validating", signing_key |-> <<>>,
      override_storage_slots |-> file] :
        file \in {<<>>, <<OverrideFile("unreadable", <<>>)>>,
                  <<OverrideFile("no json", <<>>)>>}
                     \cup {<<OverrideFile("slots", slots)>> : slots \in SlotLists}}

\* A compiled contract with its storage slots.
CompiledWithSlots(bytes, slots) ==
    [is_contract |-> TRUE, len |-> Len(bytes), abi_fuel |-> TRUE, proxy |-> <<>>,
     contract_deps |-> <<>>, bytecode |-> bytes, storage_slots |-> slots]

PrepareStep ==
    /\ pc = "prepare"
    /\ pc' = "prepared"
    /\ result' = <<prepare(command, built_pkgs[1], salt.value)>>
    /\ UNCHANGED <<command, built_pkgs, contract_salt_map, wallet_mode,
                   owner_account_address, idx, salt, call, deployed_chunks,
                   deployed_contract_id, deployed_contracts, txs, artifacts,
                   manifests, chunks, bytecode, contract_chunks>>

NextSlots == PrepareStep

\* Every list of slots comes from the compiled package when no file is
\* given, and from the file over a package of one slot list otherwise.
InitSlots ==
    /\ pc = "prepare"
    /\ command \in SlotCommands
    /\ \E slots \in SlotLists :
           /\ command.override_storage_slots # <<>> =>
                  slots = <<StorageSlot(1, 0)>>
           /\ built_pkgs = <<CompiledWithSlots(Bytes(2, 0), slots)>>
    /\ contract_salt_map = <<>>
    /\ wallet_mode = "unset"
    /\ owner_account_address = DefaultAddress
    /\ idx = 1
    /\ salt \in {[value |-> s, from |-> "random"] : s \in Salts}
    /\ call = NoCall
    /\ deployed_chunks = <<>>
    /\ deployed_contract_id = <<>>
    /\ deployed_contracts = <<>>
    /\ result = <<>>
    /\ txs = <<>>
    /\ artifacts = {}
    /\ manifests = <<<<>>>>
    /\ chunks = <<>>
    /\ bytecode = <<>>
    /\ contract_chunks = <<>>

SpecSlots == InitSlots /\ [][NextSlots]_vars

----------------------------------------------------------------------------
(* C23: the contract id and the order of the storage slots *)

\* The slots deploy_pkg was given, in the order supplied.
SuppliedSlots ==
    IF command.override_storage_slots = <<>> THEN built_pkgs[1].storage_slots
    ELSE command.override_storage_slots[1].slots

\* The lists that hold the same slots as the list given, in every order.
Reorderings(slots) ==
    {[j \in DOMAIN slots |-> slots[p[j]]] : p \in Permutations(DOMAIN slots)}

Prepared == pc = "prepared" /\ result[1].kind = "ok"

SortedByKey(slots) ==
    \A j \in DOMAIN slots : \A k \in DOMAIN slots : j < k => slots[j].key <= slots[k].key

\* The same id and state root come out of every reordering of the slots
\* supplied.
OrderIndependent ==
    \A other \in Reorderings(SuppliedSlots) :
        LET tx == prepare_contract_deployment(other, built_pkgs[1].bytecode, salt.value)
        IN  /\ tx.contract_id = result[1].value.contract_id
            /\ tx.state_root = result[1].value.state_root
            /\ tx.storage_slots = result[1].value.storage_slots

DistinctKeys(slots) ==
    \A j \in DOMAIN slots : \A k \in DOMAIN slots :
        slots[j].key = slots[k].key => slots[j] = slots[k]

\* C23 as stated: for every list of slots, from the package or the file,
\* the id and the state root are the same in every order of the list, and
\* the transaction carries the slots sorted by key.
C23_IdIndependentOfSlotOrder ==
    Prepared =>
        /\ OrderIndependent
        /\ SortedByKey(result[1].value.storage_slots)

\* C23, amended: the transaction always carries the slots supplied, every
\* one of them, sorted by key; when no key is supplied with two values the
\* id, the state root and the slots carried are the same in every order of
\* the list supplied.
C23_IdIndependentOfOrderOfDistinctKeys ==
    Prepared =>
        /\ SortedByKey(result[1].value.storage_slots)
        /\ result[1].value.storage_slots \in Reorderings(SuppliedSlots)
        /\ DistinctKeys(SuppliedSlots) => OrderIndependent

\* C23 witness: an override file of three slots of three keys, not in the
\* order of the keys, is prepared for deployment.
C23_Witness ==
    /\ Prepared
    /\ command.override_storage_slots # <<>>
    /\ Len(SuppliedSlots) = 3
    /\ DistinctKeys(SuppliedSlots)
    /\ ~SortedByKey(SuppliedSlots)
    /\ result[1].value.storage_slots # SuppliedSlots

----------------------------------------------------------------------------
(* The run when every call returns and the node may never answer *)

\* Every call of the run returns, so every step but the node's answer is
\* taken once it can be; the node's answer to a submission (Commit) may
\* never come, and tokio::time::timeout (lines 528-531) ends the wait.
Fairness ==
    /\ WF_vars(Begin)
    /\ WF_vars(LoopStep)
    /\ WF_vars(Submit)
    /\ WF_vars(Timeout)
    /\ WF_vars(ChunkDeployed)
    /\ WF_vars(ImplDeployed)
    /\ WF_vars(UpdateProxy)
    /\ WF_vars(NewProxy)
    /\ WF_vars(ProxyDeployed)

SpecLive == InitSize /\ [][Next]_vars /\ Fairness

----------------------------------------------------------------------------
(* C24: every wait ends and the run terminates *)

\* The run has returned: the list with one entry for every contract of the
\* workspace, or one error.
Terminated ==
    /\ pc = "done"
    /\ Len(result) = 1
    /\ result[1].kind = "ok" =>
           Len(result[1].value) = Cardinality(ContractPositions)

\* C24: every wait for the node ends, by the node's answer or by the
\* timeout, even when the node never answers; and when every other call
\* returns, the run over the packages of the workspace ends with the
\* complete list of results or with one error.
C24_EveryWaitEndsAndRunTerminates ==
    /\ (pc = "await") ~> (pc # "await" /\ txs # <<>> /\ Last(txs).status # "InFlight")
    /\ <>Terminated
    /\ [](pc = "done" => Terminated)

\* C24 witness: the node never answered the second package's submission;
\* the timeout ended the wait and the run ended with that one error.
C24_Witness ==
    /\ Terminated
    /\ Len(txs) >= 2
    /\ Last(txs).status = "Elapsed"
    /\ Last(txs).pkg = 2
    /\ result = <<Elapsed(Last(txs).id)>>

====
